---------------------------- MODULE Spec2Model ----------------------------
(***************************************************************************)
(* Model of Control/LQR_Dynamics_Model.py: the vehicle state and its       *)
(* discrete update, the reference-path projector with its search cursor,   *)
(* the Riccati iteration of the LQR solver, the lateral and longitudinal   *)
(* controllers, the angle normaliser and the driver loop of main().        *)
(*                                                                         *)
(* The program computes with floats; the model computes with integers in   *)
(* fixed units.  Every comparison of the source is kept as it is written.  *)
(*   length        cm                 speed         cm/s                   *)
(*   acceleration  cm/s^2             angle         degree (pi = 180)      *)
(*   time          1/ts_den s         curvature     1/(1000 m)             *)
(*   cos, sin, tan thousandths (TrigScale)                                 *)
(* A product or quotient that is not an integer is truncated towards 0.    *)
(***************************************************************************)
EXTENDS Integers, Sequences, FiniteSets, TLC

VARIABLES
    vehicle_state,   \* the VehicleState object: x, y, yaw, v, e_cg, theta_e, gear
    ref_trajectory,  \* the TrajectoryAnalyzer object: x_, y_, yaw_, k_, ind_old, ind_end
    pc,              \* position of the running program (driver loop, solver loop, caller)
    time,            \* number of ticks / calls made so far
    lat,             \* what the last lateral ComputeControlCommand computed
    a_opt,           \* what the last longitudinal ComputeControlCommand returned
    call,            \* the last call made by the caller: its arguments and what it saw
    lqr              \* locals of SolveLQRProblem while it runs, and its outcome

vars == <<vehicle_state, ref_trajectory, pc, time, lat, a_opt, call, lqr>>

-----------------------------------------------------------------------------
(* Arithmetic helpers                                                      *)

Abs(n) == IF n < 0 THEN -n ELSE n

\* float quotient, truncated towards zero (symmetric in the sign, as a float quotient is)
Div(a, b) ==
    IF b = 0 THEN 0
    ELSE IF (a >= 0) = (b > 0) THEN Abs(a) \div Abs(b)
    ELSE -(Abs(a) \div Abs(b))

RECURSIVE SqrtIter(_, _)
SqrtIter(n, r) ==
    LET r1 == (r + n \div r) \div 2
    IN IF r1 >= r THEN r ELSE SqrtIter(n, r1)

\* math.hypot / np.hypot on whole centimetres: the integer part of the root
Hypot(dx, dy) ==
    LET n == dx * dx + dy * dy
    IN IF n = 0 THEN 0 ELSE SqrtIter(n, n)

TrigScale == 1000

CosTable ==
    << 1000, 1000, 999, 999, 998, 996, 995, 993, 990, 988,
       985, 982, 978, 974, 970, 966, 961, 956, 951, 946,
       940, 934, 927, 921, 914, 906, 899, 891, 883, 875,
       866, 857, 848, 839, 829, 819, 809, 799, 788, 777,
       766, 755, 743, 731, 719, 707, 695, 682, 669, 656,
       643, 629, 616, 602, 588, 574, 559, 545, 530, 515,
       500, 485, 469, 454, 438, 423, 407, 391, 375, 358,
       342, 326, 309, 292, 276, 259, 242, 225, 208, 191,
       174, 156, 139, 122, 105, 87, 70, 52, 35, 17, 0 >>

\* pi in degrees (the angle unit) and in milliradians
M_PI == 180
PiMilli == 3142

\* math.cos of an angle in degrees, in thousandths
Cos(a) ==
    LET r == a % (2 * M_PI)
        s == IF r > M_PI THEN 2 * M_PI - r ELSE r
    IN IF s > M_PI \div 2 THEN -CosTable[M_PI - s + 1] ELSE CosTable[s + 1]

\* math.sin
Sin(a) == Cos(a - M_PI \div 2)

\* math.tan; at a pole the float result is a huge finite number
Tan(a) ==
    IF Cos(a) = 0 THEN Sin(a) * 57
    ELSE Div(Sin(a) * TrigScale, Cos(a))

-----------------------------------------------------------------------------
(* Control.lateral_controller_conf: the configuration the module imports   *)

ts_den == 10                 \* ts = 0.1 s
l_f == 117                   \* 1.165 m
l_r == 117
max_steer_angle == 40        \* np.deg2rad(40)
max_acceleration == 500      \* 5.0 m/s^2
max_speed == 36              \* km/h
state_size == 4
m_f == 570                   \* kg
m_r == 570
c_f == 155                   \* cornering stiffness, kN/rad
c_r == 155

GEAR_DRIVE == "GEAR_DRIVE"
GEAR_REVERSE == "GEAR_REVERSE"
Gear == {GEAR_DRIVE, GEAR_REVERSE}

-----------------------------------------------------------------------------
(* class VehicleState                                                      *)

\* VehicleState.__init__
VehicleStateNew(x, y, yaw, v, gear) ==
    [x |-> x, y |-> y, yaw |-> yaw, v |-> v,
     e_cg |-> 0, theta_e |-> 0, gear |-> gear]

\* a plausible slip: the upper steering bound is not applied
RegulateInputNoUpperSteer(delta, a) ==
    LET d1 == IF delta < -max_steer_angle THEN -max_steer_angle ELSE delta
        a1 == IF a < -max_acceleration THEN -max_acceleration ELSE a
        a2 == IF a1 > max_acceleration THEN max_acceleration ELSE a1
    IN <<d1, a2>>

\* VehicleState.RegulateInput
RegulateInput(delta, a) ==
    LET d1 == IF delta < -max_steer_angle THEN -max_steer_angle ELSE delta
        d2 == IF d1 > max_steer_angle THEN max_steer_angle ELSE d1
        a1 == IF a < -max_acceleration THEN -max_acceleration ELSE a
        a2 == IF a1 > max_acceleration THEN max_acceleration ELSE a1
    IN <<d2, a2>>

\* VehicleState.RegulateOutput
RegulateOutput(v) ==
    LET max_speed_ == Div(max_speed * 1000, 36)
        v1 == IF v < -max_speed_ THEN -max_speed_ ELSE v
        v2 == IF v1 > max_speed_ THEN max_speed_ ELSE v1
    IN v2

\* a plausible slip: the errors handed in are dropped, the cached ones kept
CachedErrorsKept(self, e_cg, theta_e) == <<self.e_cg, self.theta_e>>

\* self.e_cg = e_cg; self.theta_e = theta_e
CachedErrors(self, e_cg, theta_e) == <<e_cg, theta_e>>

\* VehicleState.UpdateVehicleState: the object after the call
UpdateVehicleState(self, delta, a, e_cg, theta_e, gear) ==
    LET wheelbase_ == l_r + l_f
        reg == RegulateInput(delta, a)
        delta_ == reg[1]
        a_ == reg[2]
        x1 == self.x + Div(Div(self.v * Cos(self.yaw), TrigScale), ts_den)
        y1 == self.y + Div(Div(self.v * Sin(self.yaw), TrigScale), ts_den)
        rate == Div(Div(self.v * Tan(delta_), wheelbase_), ts_den)   \* mrad per tick
        yaw1 == self.yaw + Div(rate * M_PI, PiMilli)
        v1 == IF gear = GEAR_DRIVE
              THEN self.v + Div(a_, ts_den)
              ELSE self.v - Div(a_, ts_den)
        cached == CachedErrors(self, e_cg, theta_e)
    IN [x |-> x1, y |-> y1, yaw |-> yaw1, v |-> RegulateOutput(v1),
        e_cg |-> cached[1], theta_e |-> cached[2], gear |-> gear]

-----------------------------------------------------------------------------
(* pi_2_pi                                                                 *)

pi_2_pi(angle) ==
    IF angle > M_PI THEN angle - 2 * M_PI
    ELSE IF angle < -M_PI THEN angle + 2 * M_PI
    ELSE angle

-----------------------------------------------------------------------------
(* class TrajectoryAnalyzer                                                *)
(* The cursor ind_old and the indices are 0-based as in the source; the    *)
(* arrays are sequences, so x_[i] of the source is x_[i + 1] here.         *)

\* TrajectoryAnalyzer.__init__
TrajectoryAnalyzerNew(x, y, yaw, k) ==
    [x_ |-> x, y_ |-> y, yaw_ |-> yaw, k_ |-> k,
     ind_old |-> 0, ind_end |-> Len(x)]

\* a plausible slip: the whole array is searched, from index 0
SliceFromStart(arr, ind_old, ind_end) ==
    [i \in 1 .. (IF ind_end < Len(arr) THEN ind_end ELSE Len(arr)) |-> arr[i]]

\* the slice arr[ind_old: ind_end]
Slice(arr, ind_old, ind_end) ==
    LET hi == IF ind_end < Len(arr) THEN ind_end ELSE Len(arr)
        n == IF hi > ind_old THEN hi - ind_old ELSE 0
    IN [i \in 1 .. n |-> arr[ind_old + i]]

RECURSIVE ArgMinScan(_, _, _)
\* linear scan: best is the 0-based index of the least value among d[1..i]
ArgMinScan(d, i, best) ==
    IF i > Len(d) THEN best
    ELSE ArgMinScan(d, i + 1, IF d[i] < d[best + 1] THEN i - 1 ELSE best)

RECURSIVE ArgMinLastScan(_, _, _)
ArgMinLastScan(d, i, best) ==
    IF i > Len(d) THEN best
    ELSE ArgMinLastScan(d, i + 1, IF d[i] <= d[best + 1] THEN i - 1 ELSE best)

\* a plausible slip: on ties the last occurrence wins
ArgMinLast(d) == ArgMinLastScan(d, 1, 0)

\* np.argmin of a non-empty array: the first occurrence of the minimum
ArgMin(d) == ArgMinScan(d, 1, 0)

\* a plausible slip: the cursor is assigned the offset instead of advanced by it
CursorAssign(ind_old, ind_add) == ind_add

\* self.ind_old += ind_add
CursorAdvance(ind_old, ind_add) == ind_old + ind_add

\* TrajectoryAnalyzer.ToTrajectoryFrame: what it returns or raises, and the
\* cursor it leaves behind.  The side test dot > 0 is made on the exact
\* product; where that is 0 the float product is rounding noise of either
\* sign, so only the magnitude of e_cg is meaningful there.
ToTrajectoryFrame(self, x_cg, y_cg, yaw) ==
    LET xs == Slice(self.x_, self.ind_old, self.ind_end)
        ys == Slice(self.y_, self.ind_old, self.ind_end)
        dx == [i \in 1 .. Len(xs) |-> x_cg - xs[i]]
        dy == [i \in 1 .. Len(ys) |-> y_cg - ys[i]]
    IN IF Len(dx) = 0
       THEN [raised |-> "ValueError", ind_old |-> self.ind_old, ind_add |-> 0,
             theta_e |-> 0, e_cg |-> 0, yaw_ref |-> 0, k_ref |-> 0]
       ELSE
       LET ind_add == ArgMin([i \in 1 .. Len(dx) |-> Hypot(dx[i], dy[i])])
           dist == Hypot(dx[ind_add + 1], dy[ind_add + 1])
           dot == Cos(yaw + M_PI \div 2) * dx[ind_add + 1]
                  + Sin(yaw + M_PI \div 2) * dy[ind_add + 1]
           e_cg == IF dot > 0 THEN dist ELSE -dist
           ind_new == CursorAdvance(self.ind_old, ind_add)
       IN IF ind_new + 1 > Len(self.yaw_) \/ ind_new + 1 > Len(self.k_)
          THEN [raised |-> "IndexError", ind_old |-> ind_new, ind_add |-> ind_add,
                theta_e |-> 0, e_cg |-> e_cg, yaw_ref |-> 0, k_ref |-> 0]
          ELSE [raised |-> "no", ind_old |-> ind_new, ind_add |-> ind_add,
                theta_e |-> pi_2_pi(yaw - self.yaw_[ind_new + 1]),
                e_cg |-> e_cg,
                yaw_ref |-> self.yaw_[ind_new + 1],
                k_ref |-> self.k_[ind_new + 1]]

-----------------------------------------------------------------------------
(* class LonController                                                     *)

\* a plausible slip: the forward threshold is tested with >=
LonComputeControlCommandGe(target_speed, v, dist) ==
    LET a == Div(3 * (target_speed - v), 10)
    IN IF dist < 1100
       THEN IF v >= 200 THEN -300
            ELSE IF v < -200 THEN -100
            ELSE a
       ELSE a

\* LonController.ComputeControlCommand
LonComputeControlCommand(target_speed, v, dist) ==
    LET a == Div(3 * (target_speed - v), 10)
    IN IF dist < 1100
       THEN IF v > 200 THEN -300
            ELSE IF v < -200 THEN -100
            ELSE a
       ELSE a

-----------------------------------------------------------------------------
(* Values of the variables a specification does not use                    *)

NoLat ==
    [steer_angle |-> 0, theta_e |-> 0, e_cg |-> 0, k_ref |-> 0,
     matrix_state_ |-> <<0, 0, 0, 0>>, dist |-> 0,
     prev_e_cg |-> 0, prev_theta_e |-> 0]

NoCall == [op |-> "none"]

NoLqr == [outcome |-> "idle"]

-----------------------------------------------------------------------------
(* SpecAnalyzer: one TrajectoryAnalyzer, a caller that builds vehicle      *)
(* states anywhere and projects them, in any order                         *)

\* reference paths: straight, a hairpin that comes back next to its start,
\* a single sample, and the empty path
AnalyzerPaths ==
    { [x |-> <<0, 100, 200, 300>>, y |-> <<0, 0, 0, 0>>,
       yaw |-> <<0, 0, 0, 0>>, k |-> <<0, 0, 0, 0>>],
      [x |-> <<0, 100, 200, 200, 100, 0>>, y |-> <<0, 0, 0, 100, 100, 100>>,
       yaw |-> <<0, 0, 90, 180, 180, 180>>, k |-> <<0, 0, 20, 21, 1, 2>>],
      [x |-> <<50>>, y |-> <<50>>, yaw |-> <<45>>, k |-> <<5>>],
      [x |-> <<>>, y |-> <<>>, yaw |-> <<>>, k |-> <<>>] }

ProbeX == {0, 50, 100, 200}
ProbeY == {0, 50, 100}
ProbeYaw == {0, 200}

InitAnalyzer ==
    /\ ref_trajectory \in
         {TrajectoryAnalyzerNew(p.x, p.y, p.yaw, p.k) : p \in AnalyzerPaths}
    /\ vehicle_state = VehicleStateNew(0, 0, 0, 0, GEAR_DRIVE)
    /\ pc = "caller"
    /\ time = 0
    /\ lat = NoLat
    /\ a_opt = 0
    /\ call = NoCall
    /\ lqr = NoLqr

\* the caller builds a VehicleState at some pose
NewVehicleState ==
    /\ pc = "caller"
    /\ \E x \in ProbeX, y \in ProbeY, yaw \in ProbeYaw :
         vehicle_state' = VehicleStateNew(x, y, yaw, 0, GEAR_DRIVE)
    /\ UNCHANGED <<ref_trajectory, pc, time, lat, a_opt, call, lqr>>

\* ref_trajectory.ToTrajectoryFrame(vehicle_state)
ToTrajectoryFrameCall ==
    /\ pc = "caller"
    /\ LET r == ToTrajectoryFrame(ref_trajectory, vehicle_state.x,
                                  vehicle_state.y, vehicle_state.yaw)
       IN /\ ref_trajectory' = [ref_trajectory EXCEPT !.ind_old = r.ind_old]
          /\ call' = [op |-> "ToTrajectoryFrame",
                      entry |-> ref_trajectory.ind_old,
                      x |-> vehicle_state.x, y |-> vehicle_state.y,
                      ret |-> r]
          /\ pc' = IF r.raised = "no" THEN "caller" ELSE r.raised
    /\ UNCHANGED <<vehicle_state, time, lat, a_opt, lqr>>

NextAnalyzer == NewVehicleState \/ ToTrajectoryFrameCall

SpecAnalyzer == InitAnalyzer /\ [][NextAnalyzer]_vars

\* distance from the probed position to the path sample of 0-based index j
DistTo(j) ==
    Hypot(call.x - ref_trajectory.x_[j + 1], call.y - ref_trajectory.y_[j + 1])

Projected == call.op = "ToTrajectoryFrame" /\ call.ret.raised = "no"

\* C5: across ToTrajectoryFrame calls with any vehicle positions the cursor
\* ind_old never decreases and is never reset
CursorNeverDecreases ==
    [][ref_trajectory'.ind_old >= ref_trajectory.ind_old]_vars

\* a call made with the cursor already advanced, from a position that is
\* strictly closer to a sample behind the cursor: the cursor stays
CursorKeptBehindCloserPoint ==
    /\ Projected
    /\ call.entry > 0
    /\ ref_trajectory.ind_old = call.entry
    /\ \E j \in 0 .. call.entry - 1 : DistTo(j) < DistTo(ref_trajectory.ind_old)

CursorInRange ==
    ref_trajectory.ind_end > 0 =>
        /\ 0 <= ref_trajectory.ind_old
        /\ ref_trajectory.ind_old <= ref_trajectory.ind_end - 1
        /\ pc = "caller"

\* the cursor sits on the last sample and a further call was made from there
CursorAtLastSampleCalledAgain ==
    /\ Projected
    /\ ref_trajectory.ind_end > 1
    /\ call.entry = ref_trajectory.ind_end - 1
    /\ ref_trajectory.ind_old = ref_trajectory.ind_end - 1

-----------------------------------------------------------------------------
(* SpecVehicle: one VehicleState created with any speed, then updated by   *)
(* a caller with any steering, acceleration, errors and gear               *)

MaxCalls == 2

InitSpeeds == {-2000, 0, 300, 1500}
DeltaInputs == {-60, -40, 10, 55}
AccelInputs == {-700, -500, 200, 650}
ErrorInputs ==
    { [e_cg |-> 0, theta_e |-> 0, gear |-> GEAR_DRIVE],
      [e_cg |-> 12, theta_e |-> -7, gear |-> GEAR_REVERSE] }

InitVehicle ==
    /\ \E v \in InitSpeeds, gear \in Gear :
         vehicle_state = VehicleStateNew(0, 0, 30, v, gear)
    /\ ref_trajectory = TrajectoryAnalyzerNew(<<>>, <<>>, <<>>, <<>>)
    /\ pc = "created"
    /\ time = 0
    /\ lat = NoLat
    /\ a_opt = 0
    /\ call = NoCall
    /\ lqr = NoLqr

\* vehicle_state.UpdateVehicleState(delta, a, e_cg, theta_e, gear)
UpdateVehicleStateCall ==
    /\ pc \in {"created", "updated"}
    /\ time < MaxCalls
    /\ \E delta \in DeltaInputs, a \in AccelInputs, e \in ErrorInputs :
         /\ vehicle_state' =
              UpdateVehicleState(vehicle_state, delta, a, e.e_cg, e.theta_e, e.gear)
         /\ call' = [op |-> "UpdateVehicleState", self |-> vehicle_state,
                     delta |-> delta, a |-> a, e_cg |-> e.e_cg,
                     theta_e |-> e.theta_e, gear |-> e.gear]
    /\ pc' = "updated"
    /\ time' = time + 1
    /\ UNCHANGED <<ref_trajectory, lat, a_opt, lqr>>

NextVehicle == UpdateVehicleStateCall

SpecVehicle == InitVehicle /\ [][NextVehicle]_vars

\* C2: in every state of the lifecycle, creation included, |v| <= max_speed/3.6
SpeedWithinMaxAlways ==
    Abs(vehicle_state.v) * 36 <= max_speed * 1000

\* the nearest value of [-bound, bound]
Nearest(value, bound) ==
    IF value < -bound THEN -bound ELSE IF value > bound THEN bound ELSE value

\* C7: a call with steering or acceleration outside the limits leaves the
\* state the call with the nearest boundary values leaves, and no error
SaturatedCallEqualsBoundaryCall ==
    call.op = "UpdateVehicleState" =>
        /\ vehicle_state =
             UpdateVehicleState(call.self,
                                Nearest(call.delta, max_steer_angle),
                                Nearest(call.a, max_acceleration),
                                call.e_cg, call.theta_e, call.gear)
        /\ pc = "updated"

\* a call with steering above the limit on a moving vehicle: the heading
\* changed, and by what the boundary value gives
SteerAboveLimitApplied ==
    /\ call.op = "UpdateVehicleState"
    /\ call.delta > max_steer_angle
    /\ call.a < -max_acceleration
    /\ call.self.v # 0
    /\ vehicle_state.yaw # call.self.yaw

-----------------------------------------------------------------------------
(* SpecAngle: pi_2_pi applied to an angle and to the angle shifted by      *)
(* whole turns                                                             *)

\* angles range over -AngleRange..AngleRange degrees, shifts over -MaxTurns..MaxTurns
AngleRange == 600
MaxTurns == 2

InitAngle ==
    /\ \E angle \in -AngleRange .. AngleRange, k \in -MaxTurns .. MaxTurns :
         call = [op |-> "pi_2_pi", angle |-> angle, k |-> k,
                 ret |-> 0, ret_shifted |-> 0]
    /\ vehicle_state = VehicleStateNew(0, 0, 0, 0, GEAR_DRIVE)
    /\ ref_trajectory = TrajectoryAnalyzerNew(<<>>, <<>>, <<>>, <<>>)
    /\ pc = "caller"
    /\ time = 0
    /\ lat = NoLat
    /\ a_opt = 0
    /\ lqr = NoLqr

\* pi_2_pi(angle) and pi_2_pi(angle + 2 pi k)
pi_2_pi_Call ==
    /\ pc = "caller"
    /\ call' = [call EXCEPT
                  !.ret = pi_2_pi(call.angle),
                  !.ret_shifted = pi_2_pi(call.angle + 2 * M_PI * call.k)]
    /\ pc' = "returned"
    /\ UNCHANGED <<vehicle_state, ref_trajectory, time, lat, a_opt, lqr>>

NextAngle == pi_2_pi_Call

SpecAngle == InitAngle /\ [][NextAngle]_vars

\* C1: the result lies in (-pi, pi], and shifting the input by whole turns
\* does not change it
NormalizedAndPeriodic ==
    pc = "returned" =>
        /\ -M_PI < call.ret
        /\ call.ret <= M_PI
        /\ call.ret_shifted = call.ret

-----------------------------------------------------------------------------
(* SpecLon: LonController.ComputeControlCommand on any target speed,       *)
(* vehicle speed and distance to the goal                                  *)

TargetSpeeds == {-300, 0, 694, 1000}
LonSpeeds == {-1000, -201, -200, -50, 0, 199, 200, 201, 1000}
LonDists == {0, 500, 1099, 1100, 1101, 5000}

InitLon ==
    /\ \E target_speed \in TargetSpeeds, v \in LonSpeeds, dist \in LonDists :
         /\ vehicle_state = VehicleStateNew(0, 0, 0, v, GEAR_DRIVE)
         /\ call = [op |-> "LonController", target_speed |-> target_speed,
                    dist |-> dist]
    /\ ref_trajectory = TrajectoryAnalyzerNew(<<>>, <<>>, <<>>, <<>>)
    /\ pc = "caller"
    /\ time = 0
    /\ lat = NoLat
    /\ a_opt = 0
    /\ lqr = NoLqr

\* a = lon_controller.ComputeControlCommand(target_speed, vehicle_state, dist)
LonComputeControlCommandCall ==
    /\ pc = "caller"
    /\ a_opt' = LonComputeControlCommand(call.target_speed, vehicle_state.v, call.dist)
    /\ pc' = "returned"
    /\ UNCHANGED <<vehicle_state, ref_trajectory, time, lat, call, lqr>>

NextLon == LonComputeControlCommandCall

SpecLon == InitLon /\ [][NextLon]_vars

\* C6: below 11 m from the goal the result is -3.0 when v > 2.0 and -1.0
\* when v < -2, whatever the target speed; in every other case it is the
\* proportional term 0.3 (target_speed - v)
BrakingOverrideOrProportional ==
    pc = "returned" /\ call.op = "LonController" =>
        LET v == vehicle_state.v
            p == Div(3 * (call.target_speed - v), 10)
        IN /\ (call.dist < 1100 /\ v > 200) => a_opt = -300
           /\ (call.dist < 1100 /\ v < -200) => a_opt = -100
           /\ (call.dist >= 1100 \/ (-200 <= v /\ v <= 200)) => a_opt = p

\* 5 m from the goal at 10 m/s with a target speed that asks for no braking
BrakingOverridesProportionalTerm ==
    /\ pc = "returned"
    /\ call.op = "LonController"
    /\ call.dist = 500
    /\ vehicle_state.v = 1000
    /\ call.target_speed = 1000
    /\ a_opt = -300

-----------------------------------------------------------------------------
(* LatController.SolveLQRProblem                                           *)
(* A matrix is a sequence of rows; an entry is a fixed-point number in     *)
(* hundredths (FixedOne is 1.0).  The inputs of the model have one control *)
(* input (R is 1 x 1, as in the controller), so pinv and inv act on a      *)
(* 1 x 1 matrix.                                                           *)

FixedOne == 100

\* math.inf
math_inf == 1000000000

\* np.size(M, 0), np.size(M, 1)
Size0(M) == Len(M)
Size1(M) == IF Len(M) = 0 THEN 0 ELSE Len(M[1])

RECURSIVE DotFrom(_, _, _, _, _)
DotFrom(X, Y, i, j, k) ==
    IF k > Size1(X) THEN 0
    ELSE X[i][k] * Y[k][j] + DotFrom(X, Y, i, j, k + 1)

\* X @ Y
MatMul(X, Y) ==
    [i \in 1 .. Size0(X) |->
        [j \in 1 .. Size1(Y) |-> Div(DotFrom(X, Y, i, j, 1), FixedOne)]]

\* X.T
Transpose(X) ==
    [j \in 1 .. Size1(X) |-> [i \in 1 .. Size0(X) |-> X[i][j]]]

MatAdd(X, Y) ==
    [i \in 1 .. Size0(X) |-> [j \in 1 .. Size1(X) |-> X[i][j] + Y[i][j]]]

MatSub(X, Y) ==
    [i \in 1 .. Size0(X) |-> [j \in 1 .. Size1(X) |-> X[i][j] - Y[i][j]]]

\* np.zeros((r, c))
Zeros(r, c) == [i \in 1 .. r |-> [j \in 1 .. c |-> 0]]

\* the largest element of a finite set of numbers
MaxOver(S) ==
    IF S = {} THEN 0
    ELSE LET m == CHOOSE m \in S : \A n \in S : n <= m IN m

\* (abs(X - Y)).max()
MaxAbsDiff(X, Y) ==
    MaxOver({Abs(X[i][j] - Y[i][j]) : i \in 1 .. Size0(X), j \in 1 .. Size1(X)})

\* np.linalg.pinv of a 1 x 1 matrix: the reciprocal, and 0 for the zero matrix
Pinv(S) ==
    <<<<IF S[1][1] = 0 THEN 0 ELSE Div(FixedOne * FixedOne, S[1][1])>>>>

\* np.linalg.inv raises LinAlgError on a singular matrix
IsSingular(S) == S[1][1] = 0

\* np.linalg.inv of a non-singular 1 x 1 matrix
Inv(S) == <<<<Div(FixedOne * FixedOne, S[1][1])>>>>

\* the assertion at entry
DimensionsConsistent(A, B, Q, R) ==
    /\ Size0(A) = Size1(A)
    /\ Size0(B) = Size0(A)
    /\ Size0(Q) = Size1(Q)
    /\ Size0(Q) = Size1(A)
    /\ Size0(R) = Size1(R)
    /\ Size0(R) = Size1(B)

\* one evaluation of the Riccati recursion
RiccatiNext(A, B, Q, R, P) ==
    LET AT == Transpose(A)
        BT == Transpose(B)
        M == Zeros(Size0(Q), Size1(R))
        MT == Transpose(M)
        ATP == MatMul(AT, P)
        BTP == MatMul(BT, P)
        left == MatAdd(MatMul(ATP, B), M)
        mid == Pinv(MatAdd(R, MatMul(BTP, B)))
        right == MatAdd(MatMul(BTP, A), MT)
    IN MatAdd(MatSub(MatMul(ATP, A), MatMul(MatMul(left, mid), right)), Q)

\* the matrix the final gain inverts, and the gain
GainDenominator(B, R, P) ==
    MatAdd(MatMul(MatMul(Transpose(B), P), B), R)

Gain(A, B, R, P) ==
    MatMul(Inv(GainDenominator(B, R, P)),
           MatMul(MatMul(Transpose(B), P), A))

\* the loop condition
LoopContinues(s) ==
    s.num_iteration < s.max_num_iteration /\ s.diff > s.tolerance

-----------------------------------------------------------------------------
(* SpecLQR: SolveLQRProblem called on matrices of any shape                *)

\* the iteration caps tried are 0..MaxIteration
MaxIteration == 4

eps == 1                     \* 0.01

LqrA ==
    { <<<<0>>>>, <<<<50>>>>, <<<<200>>>>,
      <<<<100, 10>>, <<0, 100>>>>,
      <<<<100, 0>>>> }
LqrB == { <<<<100>>>>, <<<<0>>>>, <<<<0>>, <<10>>>> }
LqrQ == { <<<<100>>>>, <<<<100, 0>>, <<0, 100>>>> }
LqrR == { <<<<100>>>>, <<<<0>>>>, <<<<100, 0>>, <<0, 100>>>> }

InitLQR ==
    /\ \E A \in LqrA, B \in LqrB, Q \in LqrQ, R \in LqrR, n \in 0 .. MaxIteration :
         lqr = [A |-> A, B |-> B, Q |-> Q, R |-> R,
                tolerance |-> eps, max_num_iteration |-> n,
                P |-> <<>>, num_iteration |-> 0, diff |-> 0,
                warned |-> FALSE, K |-> <<>>, outcome |-> "called"]
    /\ vehicle_state = VehicleStateNew(0, 0, 0, 0, GEAR_DRIVE)
    /\ ref_trajectory = TrajectoryAnalyzerNew(<<>>, <<>>, <<>>, <<>>)
    /\ pc = "entry"
    /\ time = 0
    /\ lat = NoLat
    /\ a_opt = 0
    /\ call = NoCall

\* the assertion, and the locals set before the loop
SolveEnter ==
    /\ pc = "entry"
    /\ IF DimensionsConsistent(lqr.A, lqr.B, lqr.Q, lqr.R)
       THEN /\ lqr' = [lqr EXCEPT !.P = lqr.Q, !.num_iteration = 0,
                                  !.diff = math_inf, !.outcome = "running"]
            /\ pc' = "loop"
       ELSE /\ lqr' = [lqr EXCEPT !.outcome = "AssertionError"]
            /\ pc' = "raised"
    /\ UNCHANGED <<vehicle_state, ref_trajectory, time, lat, a_opt, call>>

\* one pass of the while loop
RiccatiIteration ==
    /\ pc = "loop"
    /\ LoopContinues(lqr)
    /\ LET P_next == RiccatiNext(lqr.A, lqr.B, lqr.Q, lqr.R, lqr.P)
       IN lqr' = [lqr EXCEPT !.num_iteration = lqr.num_iteration + 1,
                             !.diff = MaxAbsDiff(P_next, lqr.P),
                             !.P = P_next]
    /\ UNCHANGED <<vehicle_state, ref_trajectory, pc, time, lat, a_opt, call>>

\* after the loop: the warning, then the gain
SolveExit ==
    /\ pc = "loop"
    /\ ~LoopContinues(lqr)
    /\ LET warned == lqr.num_iteration >= lqr.max_num_iteration
       IN IF IsSingular(GainDenominator(lqr.B, lqr.R, lqr.P))
          THEN /\ lqr' = [lqr EXCEPT !.warned = warned, !.outcome = "LinAlgError"]
               /\ pc' = "raised"
          ELSE /\ lqr' = [lqr EXCEPT !.warned = warned, !.outcome = "returned",
                                     !.K = Gain(lqr.A, lqr.B, lqr.R, lqr.P)]
               /\ pc' = "returned"
    /\ UNCHANGED <<vehicle_state, ref_trajectory, time, lat, a_opt, call>>

NextLQR == SolveEnter \/ RiccatiIteration \/ SolveExit

SpecLQR == InitLQR /\ [][NextLQR]_vars

\* C4: with consistent dimensions the loop runs at most max_num_iteration
\* times and the call returns a gain; the only exception is the assertion
\* on the dimensions
SolverReturnsUnlessDimensionsMismatch ==
    /\ pc \in {"loop", "returned", "raised"} /\ lqr.outcome # "AssertionError"
         => lqr.num_iteration <= lqr.max_num_iteration
    /\ pc = "raised" =>
         /\ lqr.outcome = "AssertionError"
         /\ ~DimensionsConsistent(lqr.A, lqr.B, lqr.Q, lqr.R)

-----------------------------------------------------------------------------
(* class LatController                                                     *)

\* The gain matrix_k_ is the 1 x 4 row SolveLQRProblem returns for the model
\* UpdateMatrix builds at the current speed.  Its value is left open: a row of
\* GainSet, in hundredths (KScale) of degree per cm, cm/s, degree, degree/s.
KScale == 100
GainSet == { <<57, 0, 150, 0>>, <<30, 3, 100, 10>> }

\* UpdateMatrix divides by v: a ZeroDivisionError at v = 0.0
UpdateMatrixRaises(v) == v = 0

\* LatController.ComputeFeedForward, in degrees
ComputeFeedForward(v, gear, ref_curvature, matrix_k_) ==
    LET mass_ == m_f + m_r
        wheelbase_ == l_f + l_r
        kf == Div(l_r * mass_ * 1000, 2 * c_f * wheelbase_)
        kr == Div(l_f * mass_ * 1000, 2 * c_r * wheelbase_)
        kv == kf - kr
        v2 == Div(v * v, 10000)
        wbk == Div(wheelbase_ * ref_curvature, 100)
        inner == Div(l_r * ref_curvature, 100)
                 - Div(Div(kr * v2, 1000) * ref_curvature, 1000)
        mrad == IF gear = GEAR_REVERSE
                THEN wbk
                ELSE wbk + Div(Div(kv * v2, 1000) * ref_curvature, 1000)
                     - Div(matrix_k_[3] * inner, KScale)
    IN Div(mrad * M_PI, PiMilli)

\* LatController.ComputeControlCommand after ToTrajectoryFrame returned r and
\* SolveLQRProblem returned matrix_k_
LatComputeControlCommand(self, r, matrix_k_) ==
    LET e_cg_old == self.e_cg
        theta_e_old == self.theta_e
        matrix_state_ == << r.e_cg,
                            (r.e_cg - e_cg_old) * ts_den,
                            r.theta_e,
                            (r.theta_e - theta_e_old) * ts_den >>
        steer_angle_feedback ==
            -Div(matrix_k_[1] * matrix_state_[1] + matrix_k_[2] * matrix_state_[2]
                 + matrix_k_[3] * matrix_state_[3] + matrix_k_[4] * matrix_state_[4],
                 KScale)
        steer_angle_feedforward ==
            ComputeFeedForward(self.v, self.gear, r.k_ref, matrix_k_)
    IN [steer_angle |-> steer_angle_feedback + steer_angle_feedforward,
        theta_e |-> r.theta_e, e_cg |-> r.e_cg, k_ref |-> r.k_ref,
        matrix_state_ |-> matrix_state_]

-----------------------------------------------------------------------------
(* Spec: the driver loop of main()                                         *)

\* the loop is cut after MaxTicks ticks (max_simulation_time / ts in main)
MaxTicks == 8

target_speed == 694          \* 25.0 / 3.6 m/s

\* reference paths: straight with samples 50, 100 and 200 cm apart, and a bend
DriverPaths ==
    { [x |-> <<0, 50, 100>>, y |-> <<0, 0, 0>>,
       yaw |-> <<0, 0, 0>>, k |-> <<0, 0, 0>>],
      [x |-> <<0, 100, 200, 300>>, y |-> <<0, 0, 0, 0>>,
       yaw |-> <<0, 0, 0, 0>>, k |-> <<0, 0, 0, 0>>],
      [x |-> <<0, 200, 400>>, y |-> <<0, 0, 0>>,
       yaw |-> <<0, 0, 0>>, k |-> <<0, 0, 0>>],
      [x |-> <<0, 50, 100, 140, 170>>, y |-> <<0, 0, 10, 40, 80>>,
       yaw |-> <<0, 5, 25, 45, 60>>, k |-> <<10, 30, 50, 50, 30>>] }

DriverSpeeds == {0, 100, 500, 1000}

Init ==
    /\ \E p \in DriverPaths, v \in DriverSpeeds :
         /\ ref_trajectory = TrajectoryAnalyzerNew(p.x, p.y, p.yaw, p.k)
         /\ vehicle_state = VehicleStateNew(p.x[1], p.y[1], p.yaw[1], v, GEAR_DRIVE)
    /\ pc = "lat"
    /\ time = 0
    /\ lat = NoLat
    /\ a_opt = 0
    /\ call = NoCall
    /\ lqr = NoLqr

\* time += ts; dist to the goal; lat_controller.ComputeControlCommand
LatStep ==
    /\ pc = "lat"
    /\ time < MaxTicks
    /\ time' = time + 1
    /\ LET n == ref_trajectory.ind_end
           dist == Hypot(vehicle_state.x - ref_trajectory.x_[n],
                         vehicle_state.y - ref_trajectory.y_[n])
           r == ToTrajectoryFrame(ref_trajectory, vehicle_state.x,
                                  vehicle_state.y, vehicle_state.yaw)
       IN /\ ref_trajectory' = [ref_trajectory EXCEPT !.ind_old = r.ind_old]
          /\ IF r.raised # "no"
             THEN pc' = r.raised /\ lat' = lat
             ELSE IF UpdateMatrixRaises(vehicle_state.v)
             THEN pc' = "ZeroDivisionError" /\ lat' = lat
             ELSE /\ pc' = "lon"
                  /\ \E matrix_k_ \in GainSet :
                       LET c == LatComputeControlCommand(vehicle_state, r, matrix_k_)
                       IN lat' = [steer_angle |-> c.steer_angle,
                                  theta_e |-> c.theta_e, e_cg |-> c.e_cg,
                                  k_ref |-> c.k_ref,
                                  matrix_state_ |-> c.matrix_state_,
                                  dist |-> dist,
                                  prev_e_cg |-> lat.e_cg,
                                  prev_theta_e |-> lat.theta_e]
    /\ UNCHANGED <<vehicle_state, a_opt, call, lqr>>

\* lon_controller.ComputeControlCommand
LonStep ==
    /\ pc = "lon"
    /\ a_opt' = LonComputeControlCommand(target_speed, vehicle_state.v, lat.dist)
    /\ pc' = "update"
    /\ UNCHANGED <<vehicle_state, ref_trajectory, time, lat, call, lqr>>

\* vehicle_state.UpdateVehicleState, then the test that leaves the loop
UpdateStep ==
    /\ pc = "update"
    /\ vehicle_state' = UpdateVehicleState(vehicle_state, lat.steer_angle, a_opt,
                                           lat.e_cg, lat.theta_e, GEAR_DRIVE)
    /\ pc' = IF lat.dist < 30 /\ Abs(vehicle_state'.v) < 500 THEN "done" ELSE "lat"
    /\ UNCHANGED <<ref_trajectory, time, lat, a_opt, call, lqr>>

\* the while condition fails
TimeUp ==
    /\ pc = "lat"
    /\ time >= MaxTicks
    /\ pc' = "done"
    /\ UNCHANGED <<vehicle_state, ref_trajectory, time, lat, a_opt, call, lqr>>

Next == LatStep \/ LonStep \/ UpdateStep \/ TimeUp

Spec == Init /\ [][Next]_vars

\* all samples of the path have the same yaw and zero curvature
StraightPath ==
    \A i \in 1 .. ref_trajectory.ind_end :
        /\ ref_trajectory.yaw_[i] = ref_trajectory.yaw_[1]
        /\ ref_trajectory.k_[i] = 0

\* C3: on a straight path, starting on it with zero errors and nonzero
\* speed, every tick projects a lateral error of 0 and commands a steering
\* of 0
StraightPathZeroErrorZeroSteer ==
    (pc \in {"lon", "update"} /\ StraightPath) =>
        /\ lat.e_cg = 0
        /\ lat.steer_angle = 0

\* C9: the error-rate entries of the state vector are the differences to the
\* errors projected at the preceding tick (to the 0.0 of the constructor at
\* the first tick) divided by ts, and the lateral ComputeControlCommand
\* leaves the VehicleState as it is
ErrorRatesFromPrecedingTick ==
    /\ [](pc \in {"lon", "update"} =>
            /\ lat.matrix_state_[1] = lat.e_cg
            /\ lat.matrix_state_[2] = (lat.e_cg - lat.prev_e_cg) * ts_den
            /\ lat.matrix_state_[3] = lat.theta_e
            /\ lat.matrix_state_[4] = (lat.theta_e - lat.prev_theta_e) * ts_den
            /\ vehicle_state.e_cg = lat.prev_e_cg
            /\ vehicle_state.theta_e = lat.prev_theta_e)
    /\ [][pc = "lat" => vehicle_state' = vehicle_state]_vars

\* a later tick whose projected errors differ from those of the tick before,
\* both nonzero
RatesAtLaterTick ==
    /\ pc = "lon"
    /\ time >= 3
    /\ lat.prev_e_cg # 0
    /\ lat.e_cg # lat.prev_e_cg
    /\ lat.prev_theta_e # 0
    /\ lat.theta_e # lat.prev_theta_e

=============================================================================
